---- MODULE Spec2Model ----
(***************************************************************************)
(* A model of vllm/multimodal/utils.py: the MediaConnector (URL scheme     *)
(* dispatch, data: URLs, the file: sandbox, the per-modality fetch         *)
(* operations in their blocking and suspending forms), and the two pure    *)
(* functions merge_and_sort_multimodal_metadata and                        *)
(* group_mm_inputs_by_modality.                                            *)
(*                                                                         *)
(* Python strings the code inspects are sequences: a URL scheme is a       *)
(* sequence of characters, a data: URL path a sequence of tokens (a media  *)
(* type or payload word, ";", ",", the word base64), a file path a         *)
(* sequence of path components under the root.                             *)
(***************************************************************************)
EXTENDS Integers, Sequences, FiniteSets, Bags, TLC

VARIABLES
    \* ---- merge_and_sort_multimodal_metadata
    mm_positions,   \* the placeholder dict, in key order: <<[modality, placeholders]>>
    mm_hashes,      \* Optional hash dict: [given, dict]
    merge_pc,       \* "off" | "start" | "done"
    merge_out,      \* the call's result
    \* ---- group_mm_inputs_by_modality
    mm_inputs,      \* the list of MultiModalKwargs (object references)
    group_pc,       \* "off" | "start" | "done"
    group_out,      \* the returned list of lists
    \* ---- MediaConnector
    allowed_local_media_path,  \* self.allowed_local_media_path: [some, path]
    req,            \* the request in hand: modality, URL and what the collaborators will answer
    conn_pc,        \* "off" | "idle" | "requested" | "sync_done" | "awaiting" | "done"
    sync_run,       \* the blocking call: [calls, load_out, out]
    async_run,      \* the suspending call: [calls, load_out, out, suspensions]
    async_frame     \* the suspended coroutine's frame while it awaits

mergeVars == <<mm_positions, mm_hashes, merge_pc, merge_out>>
groupVars == <<mm_inputs, group_pc, group_out>>
connVars == <<allowed_local_media_path, req, conn_pc, sync_run, async_run, async_frame>>
vars == <<mergeVars, groupVars, connVars>>

-----------------------------------------------------------------------------
(* Bounds of the model *)

MaxOffset == 2      \* placeholder offsets are 0..MaxOffset
MaxItems == 2       \* items (placeholders, hashes) per modality
MaxInputs == 3      \* length of the list given to group_mm_inputs_by_modality
MaxObjs == 2        \* distinct MultiModalKwargs objects per modality set
MaxPathLen == 4     \* components of a file: URL path
MaxDataLen == 4     \* tokens of a data: URL path

-----------------------------------------------------------------------------
(* Helpers on sequences *)

Range(s) == {s[i] : i \in 1..Len(s)}

SeqsUpTo(S, n) == UNION {[1..k -> S] : k \in 0..n}

Min(a, b) == IF a <= b THEN a ELSE b

\* Python's zip(a, b): stops at the shorter
Zip(a, b) == [i \in 1..Min(Len(a), Len(b)) |-> <<a[i], b[i]>>]

\* Python's [x] * n
Repeat(x, n) == [i \in 1..n |-> x]

RECURSIVE Flatten(_)
Flatten(ss) == IF ss = <<>> THEN <<>> ELSE Head(ss) \o Flatten(Tail(ss))

SeqToBag(s) == [x \in Range(s) |-> Cardinality({i \in 1..Len(s) : s[i] = x})]

StartsWith(s, p) == Len(s) >= Len(p) /\ SubSeq(s, 1, Len(p)) = p

-----------------------------------------------------------------------------
(* merge_and_sort_multimodal_metadata *)

Modalities == {"audio", "image"}
Hashes == {"h1", "h2"}

PlaceholderRange == [offset : 0..MaxOffset, length : {1}]

\* a modality's placeholder list is offset-ascending (the producer's order)
PlaceholderLists ==
    {s \in SeqsUpTo(PlaceholderRange, MaxItems) :
        \A i \in 1..(Len(s) - 1) : s[i].offset < s[i + 1].offset}

\* dict key orders: sequences of distinct modalities (the empty dict included)
KeyOrders == {s \in SeqsUpTo(Modalities, Cardinality(Modalities)) :
                \A i, j \in 1..Len(s) : i # j => s[i] # s[j]}

MultiModalPlaceholderDict ==
    UNION {{[i \in 1..Len(ks) |-> [modality |-> ks[i], placeholders |-> pl[i]]] :
              pl \in [1..Len(ks) -> PlaceholderLists]} : ks \in KeyOrders}

HashLists == SeqsUpTo(Hashes, MaxItems)

\* Optional[MultiModalHashDict]: None, or a dict over some of the modalities
NoHashDict == [given |-> FALSE, dict |-> <<>>]
MultiModalHashDict ==
    {NoHashDict} \cup
    UNION {{[given |-> TRUE, dict |-> d] : d \in [D -> HashLists]} : D \in SUBSET Modalities}

Keys(positions) == [i \in 1..Len(positions) |-> positions[i].modality]

\* `mm_hashes` in a boolean context: neither None nor an empty dict
Truthy(hashes) == hashes.given /\ DOMAIN hashes.dict # {}

\* Optional[str]
None == [some |-> FALSE, val |-> ""]
Some(h) == [some |-> TRUE, val |-> h]

\* str(x) of an Optional[str]
Str(x) == IF x.some THEN x.val ELSE "None"

\* the third result: Optional[list[str]]
NoList == [some |-> FALSE, val |-> <<>>]
SomeList(l) == [some |-> TRUE, val |-> l]

\* lines 359-362: the modality's hashes, or None once per placeholder
HashListOf(modality, placeholder_list, hashes) ==
    IF Truthy(hashes) /\ modality \in DOMAIN hashes.dict
    THEN [i \in 1..Len(hashes.dict[modality]) |-> Some(hashes.dict[modality][i])]
    ELSE Repeat(None, Len(placeholder_list))

\* lines 357-365, one turn of the loop over the modalities
ItemsOf(entry, hashes) ==
    LET placeholder_list == entry.placeholders
        hash_list == HashListOf(entry.modality, placeholder_list, hashes)
        zipped == Zip(placeholder_list, hash_list)
    IN [i \in 1..Len(zipped) |->
            [modality |-> entry.modality, placeholder |-> zipped[i][1],
             hash_value |-> zipped[i][2]]]

\* list.sort(key=...) is stable: an item goes after every item whose key is not larger
InsertByOffset(sorted, x) ==
    LET k == Cardinality({i \in 1..Len(sorted) :
                            sorted[i].placeholder.offset <= x.placeholder.offset})
    IN SubSeq(sorted, 1, k) \o <<x>> \o SubSeq(sorted, k + 1, Len(sorted))

\* mutant of SortByOffset: the sort left out
SortByOffset_unsorted(items) == items

RECURSIVE SortByOffset(_)
SortByOffset(items) ==
    IF items = <<>> THEN <<>>
    ELSE InsertByOffset(SortByOffset(SubSeq(items, 1, Len(items) - 1)), items[Len(items)])

MergeRaise(kind) ==
    [status |-> kind, modalities |-> <<>>, placeholders |-> <<>>, hashes |-> NoList]
MergeReturn(ms, ps, hs) ==
    [status |-> "ok", modalities |-> ms, placeholders |-> ps, hashes |-> hs]

merge_and_sort_multimodal_metadata(positions, hashes) ==
    LET modalities == Keys(positions) IN
    IF Len(modalities) = 0 THEN MergeRaise("AssertionError")
    ELSE IF Len(modalities) = 1 THEN
        LET modality == modalities[1]
            placeholder_list == positions[1].placeholders
        IN IF ~Truthy(hashes)
           THEN MergeReturn(Repeat(modality, Len(placeholder_list)), placeholder_list, NoList)
           ELSE IF modality \notin DOMAIN hashes.dict
           THEN MergeRaise("KeyError")
           ELSE MergeReturn(Repeat(modality, Len(placeholder_list)), placeholder_list,
                            SomeList(hashes.dict[modality]))
    ELSE
        LET all_items == SortByOffset(
                Flatten([i \in 1..Len(positions) |-> ItemsOf(positions[i], hashes)]))
            sorted_modalities == [i \in 1..Len(all_items) |-> all_items[i].modality]
            merged_placeholders == [i \in 1..Len(all_items) |-> all_items[i].placeholder]
            merged_hashes ==
                IF hashes.given
                THEN SomeList([i \in 1..Len(all_items) |-> Str(all_items[i].hash_value)])
                ELSE NoList
        IN MergeReturn(sorted_modalities, merged_placeholders, merged_hashes)

InitMerge ==
    /\ mm_positions \in MultiModalPlaceholderDict
    /\ mm_hashes \in MultiModalHashDict
    /\ merge_pc = "start"
    /\ merge_out = MergeRaise("none")
    /\ mm_inputs = <<>> /\ group_pc = "off" /\ group_out = <<>>
    \* no connector is built and no request made
    /\ allowed_local_media_path = [some |-> FALSE, path |-> <<>>]
    /\ req = <<>> /\ conn_pc = "off"
    /\ sync_run = <<>> /\ async_run = <<>> /\ async_frame = <<>>

\* one call of merge_and_sort_multimodal_metadata
Merge ==
    /\ merge_pc = "start"
    /\ merge_out' = merge_and_sort_multimodal_metadata(mm_positions, mm_hashes)
    /\ merge_pc' = "done"
    /\ UNCHANGED <<mm_positions, mm_hashes, groupVars, connVars>>

-----------------------------------------------------------------------------
(* group_mm_inputs_by_modality *)

\* the modality sets a MultiModalKwargs may declare: none, one, several
ModalitySets == SUBSET Modalities

\* The live MultiModalKwargs objects. id is what id(obj) returns: distinct live
\* objects have distinct ids, and one object has one id wherever it is referenced.
SetIndex(ms) == (IF "audio" \in ms THEN 1 ELSE 0) + (IF "image" \in ms THEN 2 ELSE 0)
MultiModalKwargs ==
    {[id |-> SetIndex(ms) * MaxObjs + k, modalities |-> ms] :
        ms \in ModalitySets, k \in 1..MaxObjs}

\* Union[str, int]
StrKey(name) == [tag |-> "str", int |-> 0, str |-> name]
IntKey(n) == [tag |-> "int", int |-> n, str |-> ""]

modality_group_func(mm_input) ==
    IF Cardinality(mm_input.modalities) > 1 THEN IntKey(mm_input.id)
    ELSE IF Cardinality(mm_input.modalities) = 1
         THEN StrKey(CHOOSE m \in mm_input.modalities : TRUE)
         ELSE StrKey("")

\* mutant of groupby: a partition by key, an item joining the first group of its key
RECURSIVE groupby_partition(_)
groupby_partition(items) ==
    IF items = <<>> THEN <<>>
    ELSE LET before == groupby_partition(SubSeq(items, 1, Len(items) - 1))
             item == items[Len(items)]
             same == {g \in 1..Len(before) :
                        modality_group_func(before[g][1]) = modality_group_func(item)}
         IN IF same # {}
            THEN LET g == CHOOSE x \in same : \A y \in same : x <= y
                 IN [before EXCEPT ![g] = Append(@, item)]
            ELSE Append(before, <<item>>)

\* itertools.groupby(..., key=modality_group_func): an item whose key equals the
\* running group's key joins it, any other item opens a new group
RECURSIVE groupby(_)
groupby(items) ==
    IF items = <<>> THEN <<>>
    ELSE LET before == groupby(SubSeq(items, 1, Len(items) - 1))
             item == items[Len(items)]
         IN IF /\ before # <<>>
               /\ modality_group_func(before[Len(before)][1]) = modality_group_func(item)
            THEN [before EXCEPT ![Len(before)] = Append(@, item)]
            ELSE Append(before, <<item>>)

group_mm_inputs_by_modality(inputs) ==
    IF inputs = <<>> THEN <<>> ELSE groupby(inputs)

InitGroup ==
    /\ mm_inputs \in SeqsUpTo(MultiModalKwargs, MaxInputs)
    /\ group_pc = "start"
    /\ group_out = <<>>
    /\ mm_positions = <<>> /\ mm_hashes = NoHashDict
    /\ merge_pc = "off" /\ merge_out = MergeRaise("none")
    \* no connector is built and no request made
    /\ allowed_local_media_path = [some |-> FALSE, path |-> <<>>]
    /\ req = <<>> /\ conn_pc = "off"
    /\ sync_run = <<>> /\ async_run = <<>> /\ async_frame = <<>>

\* one call of group_mm_inputs_by_modality
Group ==
    /\ group_pc = "start"
    /\ group_out' = group_mm_inputs_by_modality(mm_inputs)
    /\ group_pc' = "done"
    /\ UNCHANGED <<mm_inputs, mergeVars, connVars>>

-----------------------------------------------------------------------------
(* MediaConnector: the file system it looks at *)

\* Paths are absolute: the sequence of components under the root.
FsDirs == {<<>>, <<"data">>, <<"data", "media">>}
FsFiles == {<<"data", "a">>, <<"data", "media", "a">>}
\* /data/media/out is a symbolic link to the file /data/a
SymlinkTarget == [p \in {<<"data", "media", "out">>} |-> <<"data", "a">>]

\* Path.resolve(): symbolic links followed and ".." applied, left to right;
\* components that do not exist are kept as they are
RECURSIVE ResolveFrom(_, _)
ResolveFrom(cur, rest) ==
    IF rest = <<>> THEN cur
    ELSE LET c == Head(rest) IN
         IF c = ".."
         THEN ResolveFrom(IF cur = <<>> THEN <<>> ELSE SubSeq(cur, 1, Len(cur) - 1), Tail(rest))
         ELSE IF Append(cur, c) \in DOMAIN SymlinkTarget
              THEN ResolveFrom(SymlinkTarget[Append(cur, c)], Tail(rest))
              ELSE ResolveFrom(Append(cur, c), Tail(rest))

Resolve(path) == ResolveFrom(<<>>, path)

\* PurePath.parents: every proper ancestor, the root included
Parents(path) == {SubSeq(path, 1, k) : k \in 0..(Len(path) - 1)}

Exists(path) == Resolve(path) \in FsDirs \cup FsFiles
IsDir(path) == Resolve(path) \in FsDirs

\* Optional[Path]
NoPath == [some |-> FALSE, path |-> <<>>]
SomePath(p) == [some |-> TRUE, path |-> p]

\* the allowed_local_media_path arguments tried: "" (the default), /data/media,
\* /data, a file, a path that does not exist
CtorArgs ==
    {NoPath, SomePath(<<"data", "media">>), SomePath(<<"data">>),
     SomePath(<<"data", "a">>), SomePath(<<"nope">>)}

\* MediaConnector.__init__: the sandbox must exist and be a directory
__init__(arg) ==
    IF arg.some
    THEN IF ~Exists(arg.path) THEN [ok |-> FALSE, allowed |-> NoPath]
         ELSE IF ~IsDir(arg.path) THEN [ok |-> FALSE, allowed |-> NoPath]
         ELSE [ok |-> TRUE, allowed |-> SomePath(arg.path)]
    ELSE [ok |-> TRUE, allowed |-> NoPath]

-----------------------------------------------------------------------------
(* MediaConnector: URLs, collaborators, outcomes *)

HTTP == <<"h", "t", "t", "p">>
HTTPS == <<"h", "t", "t", "p", "s">>
HTTPX == <<"h", "t", "t", "p", "x">>
DATA == <<"d", "a", "t", "a">>
FILE == <<"f", "i", "l", "e">>
FTP == <<"f", "t", "p">>

DataTokens == {"png", ";", ",", "base64"}
PathComponents == {"data", "media", "a", "out", ".."}

\* urlparse(url): the scheme and the path
Urls ==
    {[scheme |-> sc, path |-> <<"host", "img">>] : sc \in {HTTP, HTTPS, HTTPX, FTP, <<>>}}
    \cup {[scheme |-> DATA, path |-> p] : p \in SeqsUpTo(DataTokens, MaxDataLen)}
    \cup {[scheme |-> FILE, path |-> p] : p \in SeqsUpTo(PathComponents, MaxPathLen)}

UrlString(url) == url.scheme \o <<":">> \o url.path

\* what the transport client answers: the bytes, or its own error
TransportAnswers == {"bytes", "TimeoutError"}

\* what a codec answers to load_bytes / load_base64 / load_file: a value, or the
\* error it raises on input it cannot decode
CodecAnswers(modality) ==
    CASE modality = "audio" -> {"ok", "DecodeError"}
      [] modality = "image" -> {"ok", "UnidentifiedImageError"}
      [] modality = "video" -> {"ok", "UnidentifiedImageError", "DecodeError"}

FetchModalities == {"audio", "image", "video"}

AudioMediaIO(answer) == [name |-> "AudioMediaIO", answer |-> answer]
ImageMediaIO(answer) == [name |-> "ImageMediaIO", answer |-> answer]
VideoMediaIO(image_io) == [name |-> "VideoMediaIO", answer |-> image_io.answer]

NoOut == [kind |-> "none", val |-> ""]
Return(v) == [kind |-> "return", val |-> v]
Raise(e) == [kind |-> "raise", val |-> e]

Call(method, a1, a2) == [method |-> method, a1 |-> a1, a2 |-> a2]

\* a call of one of the codec's load methods
CodecLoad(media_io, method, a1, a2) ==
    [calls |-> <<Call(method, a1, a2)>>,
     out |-> IF media_io.answer = "ok" THEN Return(media_io.name) ELSE Raise(media_io.answer)]

\* str.split(sep, 1)
Split(str, sep) ==
    IF sep \notin Range(str) THEN <<str>>
    ELSE LET i == CHOOSE k \in 1..Len(str) :
                      str[k] = sep /\ \A j \in 1..(k - 1) : str[j] # sep
         IN <<SubSeq(str, 1, i - 1), SubSeq(str, i + 1, Len(str))>>

-----------------------------------------------------------------------------
(* MediaConnector: the operations *)

\* _load_data_url: unpacking a split that found no separator raises ValueError
_load_data_url(url_spec, media_io) ==
    LET parts == Split(url_spec.path, ",") IN
    IF Len(parts) # 2 THEN [calls |-> <<>>, out |-> Raise("ValueError")]
    ELSE LET data_spec == parts[1]
             data == parts[2]
             spec_parts == Split(data_spec, ";")
         IN IF Len(spec_parts) # 2 THEN [calls |-> <<>>, out |-> Raise("ValueError")]
            ELSE LET media_type == spec_parts[1]
                     data_type == spec_parts[2]
                 IN IF data_type # <<"base64">>
                    THEN [calls |-> <<>>, out |-> Raise("NotImplementedError")]
                    ELSE CodecLoad(media_io, "load_base64", media_type, data)

\* mutant of _load_file_url: the sandbox test on the path as written, not resolved
_load_file_url_unresolved(allowed, url_spec, media_io) ==
    IF ~allowed.some THEN [calls |-> <<>>, out |-> Raise("RuntimeError")]
    ELSE IF allowed.path \notin Parents(url_spec.path)
         THEN [calls |-> <<>>, out |-> Raise("ValueError")]
         ELSE CodecLoad(media_io, "load_file", url_spec.path, <<>>)

\* _load_file_url
_load_file_url(allowed, url_spec, media_io) ==
    IF ~allowed.some THEN [calls |-> <<>>, out |-> Raise("RuntimeError")]
    ELSE LET filepath == url_spec.path IN
         IF allowed.path \notin Parents(Resolve(filepath))
         THEN [calls |-> <<>>, out |-> Raise("ValueError")]
         ELSE CodecLoad(media_io, "load_file", filepath, <<>>)

\* connection.get_bytes(url, timeout=fetch_timeout) and media_io.load_bytes(data)
AfterBytes(fetch_call, transport, media_io) ==
    IF transport # "bytes"
    THEN [calls |-> <<fetch_call>>, out |-> Raise(transport)]
    ELSE LET loaded == CodecLoad(media_io, "load_bytes", <<transport>>, <<>>)
         IN [calls |-> <<fetch_call>> \o loaded.calls, out |-> loaded.out]

\* load_from_url
load_from_url(allowed, url, media_io, fetch_timeout, transport) ==
    IF StartsWith(url.scheme, HTTP)
    THEN AfterBytes(Call("get_bytes", UrlString(url), <<fetch_timeout>>), transport, media_io)
    ELSE IF url.scheme = DATA THEN _load_data_url(url, media_io)
    ELSE IF url.scheme = FILE THEN _load_file_url(allowed, url, media_io)
    ELSE [calls |-> <<>>, out |-> Raise("ValueError")]

\* mutant of load_from_url_async: the file branch left out
load_from_url_async_nofile(allowed, url, media_io, fetch_timeout) ==
    IF StartsWith(url.scheme, HTTP)
    THEN [suspended |-> TRUE,
          calls |-> <<Call("async_get_bytes", UrlString(url), <<fetch_timeout>>)>>,
          out |-> NoOut]
    ELSE IF url.scheme = DATA
         THEN [suspended |-> FALSE] @@ _load_data_url(url, media_io)
    ELSE [suspended |-> FALSE, calls |-> <<>>, out |-> Raise("ValueError")]

\* load_from_url_async, up to its await or, on the branches without one, to its end
load_from_url_async(allowed, url, media_io, fetch_timeout) ==
    IF StartsWith(url.scheme, HTTP)
    THEN [suspended |-> TRUE,
          calls |-> <<Call("async_get_bytes", UrlString(url), <<fetch_timeout>>)>>,
          out |-> NoOut]
    ELSE IF url.scheme = DATA
         THEN [suspended |-> FALSE] @@ _load_data_url(url, media_io)
    ELSE IF url.scheme = FILE
         THEN [suspended |-> FALSE] @@ _load_file_url(allowed, url, media_io)
    ELSE [suspended |-> FALSE, calls |-> <<>>, out |-> Raise("ValueError")]

\* load_from_url_async, from the await's answer on
load_from_url_async_resume(frame, transport) ==
    AfterBytes(frame.calls[1], transport, frame.media_io)

\* except UnidentifiedImageError as e: raise ValueError(str(e)) from e
ConvertUnidentified(out) ==
    IF out = Raise("UnidentifiedImageError") THEN Raise("ValueError") ELSE out

Propagate(out) == out

fetch_audio(allowed, r) ==
    LET audio_io == AudioMediaIO(r.codec)
        got == load_from_url(allowed, r.url, audio_io, "VLLM_AUDIO_FETCH_TIMEOUT", r.transport)
    IN [calls |-> got.calls, load_out |-> got.out, out |-> Propagate(got.out)]

\* mutant of fetch_image: the except clause left out
fetch_image_unconverted(allowed, r) ==
    LET image_io == ImageMediaIO(r.codec)
        got == load_from_url(allowed, r.url, image_io, "VLLM_IMAGE_FETCH_TIMEOUT", r.transport)
    IN [calls |-> got.calls, load_out |-> got.out, out |-> Propagate(got.out)]

fetch_image(allowed, r) ==
    LET image_io == ImageMediaIO(r.codec)
        got == load_from_url(allowed, r.url, image_io, "VLLM_IMAGE_FETCH_TIMEOUT", r.transport)
    IN [calls |-> got.calls, load_out |-> got.out, out |-> ConvertUnidentified(got.out)]

fetch_video(allowed, r) ==
    LET image_io == ImageMediaIO(r.codec)
        video_io == VideoMediaIO(image_io)
        got == load_from_url(allowed, r.url, video_io, "VLLM_VIDEO_FETCH_TIMEOUT", r.transport)
    IN [calls |-> got.calls, load_out |-> got.out, out |-> Propagate(got.out)]

\* the coroutine frame kept while load_from_url_async awaits the transport
NoFrame == [caller |-> "", media_io |-> [name |-> "", answer |-> ""], calls |-> <<>>]

AsyncStep(caller, media_io, got) ==
    [suspended |-> got.suspended, calls |-> got.calls, load_out |-> got.out,
     frame |-> IF got.suspended
               THEN [caller |-> caller, media_io |-> media_io, calls |-> got.calls]
               ELSE NoFrame]

fetch_audio_async(allowed, r) ==
    LET audio_io == AudioMediaIO(r.codec)
        got == load_from_url_async(allowed, r.url, audio_io, "VLLM_AUDIO_FETCH_TIMEOUT")
    IN [out |-> Propagate(got.out)] @@ AsyncStep("fetch_audio_async", audio_io, got)

fetch_image_async(allowed, r) ==
    LET image_io == ImageMediaIO(r.codec)
        got == load_from_url_async(allowed, r.url, image_io, "VLLM_IMAGE_FETCH_TIMEOUT")
    IN [out |-> ConvertUnidentified(got.out)] @@ AsyncStep("fetch_image_async", image_io, got)

fetch_video_async(allowed, r) ==
    LET image_io == ImageMediaIO(r.codec)
        video_io == VideoMediaIO(image_io)
        got == load_from_url_async(allowed, r.url, video_io, "VLLM_VIDEO_FETCH_TIMEOUT")
    IN [out |-> Propagate(got.out)] @@ AsyncStep("fetch_video_async", video_io, got)

\* the awaiting fetch_*_async resumed with the transport's answer
fetch_async_resume(frame, transport) ==
    LET got == load_from_url_async_resume(frame, transport)
    IN [calls |-> got.calls, load_out |-> got.out,
        out |-> IF frame.caller = "fetch_image_async"
                THEN ConvertUnidentified(got.out) ELSE Propagate(got.out)]

-----------------------------------------------------------------------------
(* MediaConnector: the state machine. One request is served twice, by the     *)
(* blocking operation and then by the suspending one, with the same answers   *)
(* from the transport and the codec.                                          *)

NoReq == [modality |-> "", url |-> [scheme |-> <<>>, path |-> <<>>],
          transport |-> "", codec |-> ""]
NoRun == [calls |-> <<>>, load_out |-> NoOut, out |-> NoOut]
NoAsyncRun == [calls |-> <<>>, load_out |-> NoOut, out |-> NoOut, suspensions |-> 0]

InitConnector ==
    /\ \E arg \in CtorArgs :
          /\ __init__(arg).ok
          /\ allowed_local_media_path = __init__(arg).allowed
    /\ req = NoReq
    /\ conn_pc = "idle"
    /\ sync_run = NoRun
    /\ async_run = NoAsyncRun
    /\ async_frame = NoFrame
    /\ mm_positions = <<>> /\ mm_hashes = NoHashDict
    /\ merge_pc = "off" /\ merge_out = MergeRaise("none")
    /\ mm_inputs = <<>> /\ group_pc = "off" /\ group_out = <<>>

\* a caller arrives with a URL for one of the modalities
NewRequest ==
    /\ conn_pc = "idle"
    /\ \E m \in FetchModalities, u \in Urls, t \in TransportAnswers :
          \E c \in CodecAnswers(m) :
              req' = [modality |-> m, url |-> u, transport |-> t, codec |-> c]
    /\ conn_pc' = "requested"
    /\ UNCHANGED <<allowed_local_media_path, sync_run, async_run, async_frame>>
    /\ UNCHANGED <<mergeVars, groupVars>>

SyncCall(modality, run) ==
    /\ conn_pc = "requested"
    /\ req.modality = modality
    /\ sync_run' = run
    /\ conn_pc' = "sync_done"
    /\ UNCHANGED <<allowed_local_media_path, req, async_run, async_frame>>
    /\ UNCHANGED <<mergeVars, groupVars>>

CallFetchAudio == SyncCall("audio", fetch_audio(allowed_local_media_path, req))
CallFetchImage == SyncCall("image", fetch_image(allowed_local_media_path, req))
CallFetchVideo == SyncCall("video", fetch_video(allowed_local_media_path, req))

AsyncCall(modality, step) ==
    /\ conn_pc = "sync_done"
    /\ req.modality = modality
    /\ async_run' = [calls |-> step.calls, load_out |-> step.load_out, out |-> step.out,
                     suspensions |-> IF step.suspended THEN 1 ELSE 0]
    /\ async_frame' = step.frame
    /\ conn_pc' = IF step.suspended THEN "awaiting" ELSE "done"
    /\ UNCHANGED <<allowed_local_media_path, req, sync_run>>
    /\ UNCHANGED <<mergeVars, groupVars>>

CallFetchAudioAsync == AsyncCall("audio", fetch_audio_async(allowed_local_media_path, req))
CallFetchImageAsync == AsyncCall("image", fetch_image_async(allowed_local_media_path, req))
CallFetchVideoAsync == AsyncCall("video", fetch_video_async(allowed_local_media_path, req))

\* the transport answers and the event loop resumes the coroutine
ResumeAsync ==
    /\ conn_pc = "awaiting"
    /\ LET got == fetch_async_resume(async_frame, req.transport)
       IN async_run' = [calls |-> got.calls, load_out |-> got.load_out, out |-> got.out,
                        suspensions |-> async_run.suspensions]
    /\ async_frame' = NoFrame
    /\ conn_pc' = "done"
    /\ UNCHANGED <<allowed_local_media_path, req, sync_run>>
    /\ UNCHANGED <<mergeVars, groupVars>>

-----------------------------------------------------------------------------
(* Specifications *)

NextConnector ==
    \/ NewRequest
    \/ CallFetchAudio
    \/ CallFetchImage
    \/ CallFetchVideo
    \/ CallFetchAudioAsync
    \/ CallFetchImageAsync
    \/ CallFetchVideoAsync
    \/ ResumeAsync

SpecConnector == InitConnector /\ [][NextConnector]_vars

NextMerge == Merge

SpecMerge == InitMerge /\ [][NextMerge]_vars

NextGroup == Group

SpecGroup == InitGroup /\ [][NextGroup]_vars

-----------------------------------------------------------------------------
(* Properties of merge_and_sort_multimodal_metadata, under SpecMerge *)

MultiPath == Len(mm_positions) >= 2
SinglePath == Len(mm_positions) = 1

\* every hash list the dict gives is as long as its modality's placeholder list
HashListsFit ==
    \A i \in 1..Len(mm_positions) :
        mm_positions[i].modality \in DOMAIN mm_hashes.dict =>
            Len(mm_hashes.dict[mm_positions[i].modality]) = Len(mm_positions[i].placeholders)

TotalPlaceholders == Len(Flatten([i \in 1..Len(mm_positions) |-> mm_positions[i].placeholders]))

\* the input's (modality, placeholder) pairs, in dict order
InputPairs ==
    Flatten([i \in 1..Len(mm_positions) |->
        [j \in 1..Len(mm_positions[i].placeholders) |->
            <<mm_positions[i].modality, mm_positions[i].placeholders[j]>>]])

\* the input's (modality, placeholder, hash) triples of the modalities that have hashes
InputTriples ==
    Flatten([i \in 1..Len(mm_positions) |->
        IF mm_positions[i].modality \in DOMAIN mm_hashes.dict
        THEN [j \in 1..Len(mm_positions[i].placeholders) |->
                <<mm_positions[i].modality, mm_positions[i].placeholders[j],
                  mm_hashes.dict[mm_positions[i].modality][j]>>]
        ELSE <<>>])

OutputPairs ==
    [k \in 1..Len(merge_out.placeholders) |->
        <<merge_out.modalities[k], merge_out.placeholders[k]>>]

OutputTriples ==
    LET all == [k \in 1..Len(merge_out.placeholders) |->
                    <<merge_out.modalities[k], merge_out.placeholders[k], merge_out.hashes.val[k]>>]
        HasHashes(t) == t[1] \in DOMAIN mm_hashes.dict
    IN SelectSeq(all, HasHashes)

SortedByOffset(ps) ==
    \A i, j \in 1..Len(ps) : i < j => ps[i].offset <= ps[j].offset

\* C3: on the multi-modality path (hash lists, when given, as long as the placeholder
\* lists) the returned placeholders are sorted by offset ascending, and the modality
\* and the hash returned at an index are those of the placeholder returned there: the
\* returned (modality, placeholder[, hash]) tuples are the input's, each once.
C3_SortedParallel ==
    (merge_pc = "done" /\ MultiPath /\ HashListsFit) =>
        /\ merge_out.status = "ok"
        /\ SortedByOffset(merge_out.placeholders)
        /\ Len(merge_out.modalities) = Len(merge_out.placeholders)
        /\ SeqToBag(OutputPairs) = SeqToBag(InputPairs)
        /\ mm_hashes.given =>
              /\ merge_out.hashes.some
              /\ Len(merge_out.hashes.val) = Len(merge_out.placeholders)
              /\ SeqToBag(OutputTriples) = SeqToBag(InputTriples)

\* the sort had work to do: two modalities with hashes, given out of offset order
C3_Witness ==
    /\ merge_pc = "done" /\ MultiPath /\ HashListsFit
    /\ DOMAIN mm_hashes.dict = Modalities
    /\ Len(merge_out.placeholders) >= 3
    /\ merge_out.status = "ok"
    /\ \E k \in 1..(Len(InputPairs) - 1) : InputPairs[k][2].offset > InputPairs[k + 1][2].offset

\* C7: the third result is a hash sequence exactly when a hash dict was supplied: absent
\* when none was, the single modality's own hash list on the single-modality path, one
\* hash per returned placeholder on the multi-modality path.
C7_HashesIffSupplied ==
    (merge_pc = "done" /\ merge_out.status = "ok") =>
        /\ merge_out.hashes.some <=> mm_hashes.given
        /\ (mm_hashes.given /\ SinglePath) =>
              merge_out.hashes.val = mm_hashes.dict[mm_positions[1].modality]
        /\ (mm_hashes.given /\ MultiPath) =>
              Len(merge_out.hashes.val) = Len(merge_out.placeholders)

\* C10: on the multi-modality path, whatever hash dict is supplied, the three returned
\* sequences have one entry per input placeholder range and every input placeholder
\* range is returned exactly once.
C10_LengthsMatchPlaceholders ==
    (merge_pc = "done" /\ MultiPath /\ mm_hashes.given) =>
        /\ merge_out.status = "ok"
        /\ Len(merge_out.modalities) = TotalPlaceholders
        /\ Len(merge_out.placeholders) = TotalPlaceholders
        /\ merge_out.hashes.some /\ Len(merge_out.hashes.val) = TotalPlaceholders
        /\ SeqToBag(OutputPairs) = SeqToBag(InputPairs)

-----------------------------------------------------------------------------
(* Properties of group_mm_inputs_by_modality, under SpecGroup *)

\* the grouping key as the specification words it: the modality's name for one
\* modality, the empty-modality sentinel for none, the item itself for several
RunKey(item) ==
    IF Cardinality(item.modalities) = 1
    THEN [kind |-> "modality", name |-> CHOOSE m \in item.modalities : TRUE, item |-> 0]
    ELSE IF item.modalities = {}
         THEN [kind |-> "none", name |-> "", item |-> 0]
         ELSE [kind |-> "item", name |-> "", item |-> item.id]

\* C4: the result is the input cut into maximal runs of equal grouping key: the groups
\* concatenated are the input, no group is empty, a group's items share one key, and
\* neighbouring groups differ in key; an empty input gives an empty output.
C4_MaximalRuns ==
    group_pc = "done" =>
        /\ Flatten(group_out) = mm_inputs
        /\ \A g \in 1..Len(group_out) : group_out[g] # <<>>
        /\ \A g \in 1..Len(group_out) :
              \A i, j \in 1..Len(group_out[g]) :
                  RunKey(group_out[g][i]) = RunKey(group_out[g][j])
        /\ \A g \in 1..(Len(group_out) - 1) :
              RunKey(group_out[g][1]) # RunKey(group_out[g + 1][1])
        /\ mm_inputs = <<>> => group_out = <<>>

\* two items of one modality, an item of another key between them: three groups
C4_Witness ==
    /\ group_pc = "done"
    /\ Len(mm_inputs) = 3 /\ Len(group_out) = 3
    /\ mm_inputs[1].modalities = {"image"}
    /\ mm_inputs[3].modalities = {"image"}

\* C5: each occurrence of an item that declares two or more modalities is alone in
\* its group.
C5_MultiModalAlone ==
    group_pc = "done" =>
        \A g \in 1..Len(group_out) :
            \A i \in 1..Len(group_out[g]) :
                Cardinality(group_out[g][i].modalities) >= 2 => Len(group_out[g]) = 1

-----------------------------------------------------------------------------
(* Properties of the MediaConnector, under SpecConnector *)

CodecMethods == {"load_bytes", "load_base64", "load_file"}
TransportMethods == {"get_bytes", "async_get_bytes"}

Invoked(run, methods) == \E i \in 1..Len(run.calls) : run.calls[i].method \in methods
CountCalls(run, methods) == Cardinality({i \in 1..Len(run.calls) : run.calls[i].method \in methods})

\* the calls that have returned or raised: the blocking one, the suspending one
CompletedRuns ==
    (IF conn_pc \in {"sync_done", "awaiting", "done"}
     THEN {[calls |-> sync_run.calls, load_out |-> sync_run.load_out, out |-> sync_run.out]}
     ELSE {})
    \cup
    (IF conn_pc = "done"
     THEN {[calls |-> async_run.calls, load_out |-> async_run.load_out, out |-> async_run.out]}
     ELSE {})

\* dir is an ancestor of the absolute, symlink-resolved form of path
IsAncestorOfResolved(dir, path) ==
    LET d == Resolve(dir)
        p == Resolve(path)
    IN Len(d) < Len(p) /\ SubSeq(p, 1, Len(d)) = d

InsideSandbox ==
    /\ allowed_local_media_path.some
    /\ IsAncestorOfResolved(allowed_local_media_path.path, req.url.path)

SandboxViolationErrors == {"RuntimeError", "ValueError"}

\* C1: on a file: request load_file is invoked only when a sandbox is configured and
\* is an ancestor of the resolved path; in every other case the request fails with a
\* sandbox-violation error and nothing is read.
C1_FileOnlyInsideSandbox ==
    \A run \in CompletedRuns :
        req.url.scheme = FILE =>
            /\ Invoked(run, {"load_file"}) => InsideSandbox
            /\ ~InsideSandbox =>
                  /\ run.load_out.kind = "raise"
                  /\ run.load_out.val \in SandboxViolationErrors
                  /\ run.calls = <<>>

\* a symbolic link inside the sandbox that points outside it: refused by both calls
C1_Witness ==
    /\ conn_pc = "done"
    /\ req.url = [scheme |-> FILE, path |-> <<"data", "media", "out">>]
    /\ allowed_local_media_path = SomePath(<<"data", "media">>)
    /\ sync_run.load_out = Raise("ValueError")
    /\ async_run.load_out = Raise("ValueError")
    /\ sync_run.calls = <<>> /\ async_run.calls = <<>>

\* C2: a URL whose scheme is none of http, https, data, file fails with the
\* unsupported-URL error and neither the transport nor a codec is invoked.
C2_OtherSchemesRejected ==
    \A run \in CompletedRuns :
        req.url.scheme \notin {HTTP, HTTPS, DATA, FILE} =>
            /\ run.load_out = Raise("ValueError")
            /\ run.calls = <<>>

\* the encoding part of a data: URL: in the text before the first comma, what follows
\* the first semicolon (absent when there is no semicolon)
EncodingPart(path) ==
    LET spec == Split(path, ",")[1]
    IN IF ";" \in Range(spec)
       THEN [some |-> TRUE, val |-> Split(spec, ";")[2]]
       ELSE [some |-> FALSE, val |-> <<>>]

\* C6: a data: URL whose encoding part is not exactly base64 fails with the
\* unsupported-encoding error, and no codec method is invoked.
C6_NonBase64Rejected ==
    \A run \in CompletedRuns :
        (req.url.scheme = DATA /\ EncodingPart(req.url.path) # [some |-> TRUE, val |-> <<"base64">>]) =>
            /\ run.load_out = Raise("NotImplementedError")
            /\ ~Invoked(run, CodecMethods)

\* the error an unsupported scheme / an unsupported encoding ends in
UnsupportedSchemeError ==
    load_from_url(NoPath, [scheme |-> FTP, path |-> <<>>], AudioMediaIO("ok"), "", "bytes").out
UnsupportedEncodingError ==
    load_from_url(NoPath, [scheme |-> DATA, path |-> <<"png", ";", "png", ",">>],
                  AudioMediaIO("ok"), "", "bytes").out

CodecRejected(run) == Invoked(run, CodecMethods) /\ req.codec # "ok"

SameCall(c, d) ==
    /\ c.a1 = d.a1 /\ c.a2 = d.a2
    /\ \/ c.method = d.method /\ c.method \in CodecMethods
       \/ c.method = "get_bytes" /\ d.method = "async_get_bytes"

\* C9: load_from_url and load_from_url_async end alike: the same calls with the same
\* arguments, the same value or error; one transport call on an http(s) request, none
\* on data: and file:; the suspending one suspends only at its transport call.
C9_SyncAsyncAgree ==
    /\ conn_pc = "awaiting" =>
          /\ async_run.suspensions = 1
          /\ Len(async_run.calls) = 1 /\ async_run.calls[1].method = "async_get_bytes"
    /\ conn_pc = "done" =>
          /\ sync_run.load_out = async_run.load_out
          /\ sync_run.out = async_run.out
          /\ Len(sync_run.calls) = Len(async_run.calls)
          /\ \A i \in 1..Len(sync_run.calls) : SameCall(sync_run.calls[i], async_run.calls[i])
          /\ req.url.scheme \in {HTTP, HTTPS} =>
                /\ CountCalls(sync_run, TransportMethods) = 1
                /\ CountCalls(async_run, TransportMethods) = 1
          /\ req.url.scheme \in {DATA, FILE} =>
                /\ CountCalls(sync_run, TransportMethods) = 0
                /\ CountCalls(async_run, TransportMethods) = 0
          /\ async_run.suspensions = CountCalls(async_run, TransportMethods)

\* an https request answered with bytes the codec decodes: one suspension
C9_Witness ==
    /\ conn_pc = "done"
    /\ req.url.scheme = HTTPS /\ req.transport = "bytes" /\ req.codec = "ok"
    /\ async_run.suspensions = 1
    /\ sync_run.out.kind = "return" /\ async_run.out = sync_run.out
    /\ Invoked(sync_run, {"get_bytes"}) /\ Invoked(async_run, {"async_get_bytes"})
    /\ Invoked(sync_run, {"load_bytes"}) /\ Invoked(async_run, {"load_bytes"})

====
